---- MODULE Spec2Model ----
(***************************************************************************)
(* BetterHosts (plugins/betterhosts/__init__.py): a plugin that appends a  *)
(* marker-delimited block of "ip<TAB>domain" lines to /etc/hosts, re-runs  *)
(* that update from a background scheduler, and strips the block when it   *)
(* is disabled.                                                            *)
(*                                                                         *)
(* The hosts file is a sequence of lines plus one bit telling whether the  *)
(* last line is newline-terminated.  Three threads touch the state: the    *)
(* host thread that calls init_plugin, the host thread that calls          *)
(* stop_service, and the scheduler's executor running update_hosts jobs.   *)
(***************************************************************************)
EXTENDS Integers, Sequences, FiniteSets, Bags, TLC

VARIABLES
    hosts,              \* /etc/hosts: the sequence of its lines (without "\n")
    hosts_eol,          \* TRUE iff the file is empty or ends with "\n"
    hosts0,             \* history: the lines of the file at start
    enabled,            \* self._enabled
    domain_list,        \* self._domain_list
    schedule_interval,  \* self._schedule_interval
    scheduler,          \* self._scheduler: NoScheduler or a BackgroundScheduler
    cfg_pc,             \* position of the thread inside init_plugin
    stop_pc,            \* position of the thread inside stop_service
    returned,           \* the host call that returned last, and what it raised
    written,            \* history: hosts_content of the last cycle that ended,
                        \*   <<>> once the file was rewritten since
    stop_mid            \* history: the cycles that were under way when
                        \*   stop_service was called, until both have ended

vars == << hosts, hosts_eol, hosts0, enabled, domain_list, schedule_interval,
           scheduler, cfg_pc, stop_pc, returned, written, stop_mid >>

----------------------------------------------------------------------------
(* Bounds of the model *)

\* an update cycle starts only while the end markers in the file and the
\* cycles under way are together fewer than this
MaxBlocks == 2
\* init_plugin(enabled = True) is called only while at most this many jobs
\* are stored
MaxRearm == 1
\* longest file the strip specification starts from
MaxStripLen == 5
\* the cycle specification starts a cycle only while the file has fewer
\* lines than this
MaxCycleLen == 6
\* the failing-file specification starts a cycle only while the file has
\* fewer lines than this
MaxIOLen == 7

----------------------------------------------------------------------------
(* Lines and markers *)

StartMarker == "# BetterHostsPlugin"
EndMarker == "# BetterHostsPlugin End"

\* a start marker with surrounding blanks, as a hand-edited file may hold it
PaddedStart == "  # BetterHostsPlugin "
PaddedEnd == "# BetterHostsPlugin End  "

\* str.strip() on the lines the model uses: surrounding whitespace removed
PyStrip(line) ==
    CASE line = PaddedStart -> StartMarker
      [] line = PaddedEnd -> EndMarker
      [] OTHER -> line

IsStart(line) == PyStrip(line) = StartMarker
IsEnd(line) == PyStrip(line) = EndMarker
IsMarker(line) == IsStart(line) \/ IsEnd(line)

Front(s) == SubSeq(s, 1, Len(s) - 1)
Last(s) == s[Len(s)]

----------------------------------------------------------------------------
(* The file operations *)

RECURSIVE Flatten(_)
Flatten(texts) ==
    IF texts = <<>> THEN <<>> ELSE Head(texts) \o Flatten(Tail(texts))

\* "\n".join(hosts_content), as the lines it makes.  Every element of
\* hosts_content is a text, held as the non-empty sequence of the lines that
\* splitting it at "\n" gives; the join of no text is the empty string, which
\* is one empty line once "\n" follows it.
JoinLines(hosts_content) ==
    IF hosts_content = <<>> THEN << "" >> ELSE Flatten(hosts_content)

\* _write_hosts: open("/etc/hosts", "a") and three writes.  Append mode
\* writes after the last byte: when the file does not end with "\n" the
\* start marker lands on the file's last line.
WriteHostsAppend(file, hosts_content) ==
    LET block == JoinLines(hosts_content) \o << EndMarker >>
    IN  IF file.lines # <<>> /\ ~file.eol
        THEN [ lines |-> Front(file.lines)
                         \o << Last(file.lines) \o StartMarker >> \o block,
               eol |-> TRUE ]
        ELSE [ lines |-> file.lines \o << StartMarker >> \o block,
               eol |-> TRUE ]

WriteHosts(file, hosts_content) == WriteHostsAppend(file, hosts_content)

\* a loop that never writes again once it has met a start marker
RECURSIVE ClearLoopNoResume(_, _)
ClearLoopNoResume(lines, write) ==
    IF lines = <<>> THEN <<>>
    ELSE LET line == Head(lines)
         IN  IF IsStart(line) THEN ClearLoopNoResume(Tail(lines), FALSE)
             ELSE IF IsEnd(line) THEN ClearLoopNoResume(Tail(lines), write)
             ELSE IF write
                  THEN << line >> \o ClearLoopNoResume(Tail(lines), write)
             ELSE ClearLoopNoResume(Tail(lines), write)

\* a loop that a start marker without an end marker after it does not stop
\* from writing
RECURSIVE ClearLoopKeepTail(_, _)
ClearLoopKeepTail(lines, write) ==
    IF lines = <<>> THEN <<>>
    ELSE LET line == Head(lines)
             rest == Tail(lines)
         IN  IF IsStart(line)
             THEN ClearLoopKeepTail(rest,
                      write /\ \A i \in 1..Len(rest) : ~IsEnd(rest[i]))
             ELSE IF IsEnd(line) THEN ClearLoopKeepTail(rest, TRUE)
             ELSE IF write THEN << line >> \o ClearLoopKeepTail(rest, write)
             ELSE ClearLoopKeepTail(rest, write)

\* the loop of _clear_system_hosts over the lines read, `write` being its flag
RECURSIVE ClearLoop(_, _)
ClearLoop(lines, write) ==
    IF lines = <<>> THEN <<>>
    ELSE LET line == Head(lines)
         IN  IF IsStart(line) THEN ClearLoop(Tail(lines), FALSE)
             ELSE IF IsEnd(line) THEN ClearLoop(Tail(lines), TRUE)
             ELSE IF write THEN << line >> \o ClearLoop(Tail(lines), write)
             ELSE ClearLoop(Tail(lines), write)

\* whether the loop writes the last line it read
RECURSIVE WritesLast(_, _)
WritesLast(lines, write) ==
    IF lines = <<>> THEN FALSE
    ELSE LET line == Head(lines)
             w == IF IsStart(line) THEN FALSE
                  ELSE IF IsEnd(line) THEN TRUE ELSE write
         IN  IF Len(lines) = 1 THEN write /\ ~IsMarker(line)
             ELSE WritesLast(Tail(lines), w)

\* _clear_system_hosts: readlines(), then rewrite the file with the lines
\* the loop keeps, each written as it was read (the last one without "\n"
\* when the file had none)
ClearSystemHosts(file) ==
    LET kept == ClearLoop(file.lines, TRUE)
    IN  [ lines |-> kept,
          eol |-> kept = <<>> \/ file.eol \/ ~WritesLast(file.lines, TRUE) ]

File == [ lines |-> hosts, eol |-> hosts_eol ]

----------------------------------------------------------------------------
(* Configuration and fetch results: the inputs *)

DefaultDomainList == << "api.themoviedb.org", "image.tmdb.org" >>

\* config["domain_list"] after split(): no domain, or the domains given
ConfigDomainLists == { <<>>, << "x.example.com" >> }

\* config["schedule_interval"]: two of the three cadences of the form (the
\* third, "1week", differs from them only in the trigger it makes), or
\* another text
ScheduleIntervals == { "1hour", "1day", "other" }

\* a truthy config, after the reads of lines 32-35
Configs ==
    [ enabled : BOOLEAN, domain_list : ConfigDomainLists,
      schedule_interval : ScheduleIntervals ]

\* requests.get(self._github_host_url).text: an exception, or the text
\* (its lines)
BulkOutcomes ==
    { [ ok |-> FALSE, text |-> <<>> ],
      [ ok |-> TRUE, text |-> << "1.2.3.4\tfoo.bar" >> ] }

\* requests.get(dns_api/domain): an exception (also from json() or from a
\* record without 'address'), a status other than 200, or the A addresses
DnsOutcomes ==
    { [ kind |-> "exception", addrs |-> <<>> ],
      [ kind |-> "status", addrs |-> <<>> ],
      [ kind |-> "ok", addrs |-> <<>> ],
      [ kind |-> "ok", addrs |-> << "5.6.7.8" >> ] }

Range(s) == { s[i] : i \in 1..Len(s) }

\* self._read_system_hosts(): returns the file's lines, or raises
ReadOutcomes == { "ok", "raise" }

\* the fetch results of one cycle over the domains it looks up: every
\* fetch of the cycle fails (each lookup in the same way), or every fetch of
\* the cycle succeeds
Fetches(domains) ==
    UNION { { [ bulk |-> b, dns |-> [ d \in Range(domains) |-> o ] ] :
                o \in { x \in DnsOutcomes : (x.addrs # <<>>) = b.ok } } :
            b \in BulkOutcomes }

\* requests.get(self._github_host_url) in full: an exception, or a response
\* with its status and its text (the lines of the text; the empty text is
\* one empty line).  Line 82 reads .text whatever the status is.
BulkResponses ==
    { [ ok |-> FALSE, status |-> 0, text |-> <<>> ],
      [ ok |-> TRUE, status |-> 200, text |-> << "1.2.3.4\tfoo.bar" >> ],
      [ ok |-> TRUE, status |-> 200, text |-> << "" >> ],
      [ ok |-> TRUE, status |-> 404, text |-> << "<html>Not Found</html>" >> ] }

\* the lookups in full: DnsOutcomes, and two addresses
DnsResponses ==
    DnsOutcomes \cup { [ kind |-> "ok", addrs |-> << "5.6.7.8", "9.9.9.9" >> ] }

\* the fetch results of one cycle, each fetch on its own
AllFetches(domains) ==
    [ bulk : BulkResponses, dns : [ Range(domains) -> DnsResponses ] ]

----------------------------------------------------------------------------
(* update_hosts, lines 76-100: what the cycle collects *)

\* one "ip<TAB>domain" text per address, in the order returned
RECURSIVE AddressEntries(_, _)
AddressEntries(addrs, domain) ==
    IF addrs = <<>> THEN <<>>
    ELSE << << Head(addrs) \o "\t" \o domain >> >>
         \o AddressEntries(Tail(addrs), domain)

\* a loop that the first failed lookup ends
RECURSIVE DomainEntriesAbort(_, _)
DomainEntriesAbort(domains, dns) ==
    IF domains = <<>> THEN <<>>
    ELSE LET d == Head(domains)
         IN  IF dns[d].kind = "ok"
             THEN AddressEntries(dns[d].addrs, d)
                  \o DomainEntriesAbort(Tail(domains), dns)
             ELSE <<>>

\* the loop over self._domain_list
RECURSIVE DomainEntries(_, _)
DomainEntries(domains, dns) ==
    IF domains = <<>> THEN <<>>
    ELSE LET d == Head(domains)
             mine == IF dns[d].kind = "ok"
                     THEN AddressEntries(dns[d].addrs, d) ELSE <<>>
         IN  mine \o DomainEntries(Tail(domains), dns)

\* hosts_content when the loop ends
BuildContent(bulk, dns, domains) ==
    (IF bulk.ok THEN << bulk.text >> ELSE <<>>) \o DomainEntries(domains, dns)

\* lines 102-106: write when hosts_content is a non-empty list
CycleWrite(file, hosts_content) ==
    IF hosts_content # <<>> THEN WriteHosts(file, hosts_content) ELSE file

----------------------------------------------------------------------------
(* The scheduler (apscheduler BackgroundScheduler with its default memory   *)
(* job store and thread pool executor)                                     *)

NoScheduler == [ state |-> "none", jobs |-> EmptyBag, pending |-> EmptyBag ]

\* BackgroundScheduler()
NewScheduler ==
    [ state |-> "stopped", jobs |-> EmptyBag, pending |-> EmptyBag ]

\* a job whose first run is due at once
NewJobDueNow(trigger) == [ trigger |-> trigger, due |-> TRUE, running |-> FALSE ]

\* a stored job: its trigger, whether its next run time has come, and
\* whether an instance of update_hosts is running for it.  The job store is
\* the bag of its jobs.
NewJob(trigger) == [ trigger |-> trigger, due |-> FALSE, running |-> FALSE ]

\* lines 59-65
Trigger(interval) ==
    CASE interval = "1hour" -> "hours=1"
      [] interval = "1day" -> "days=1"
      [] interval = "1week" -> "weeks=1"
      [] OTHER -> "none"

\* add_job: kept pending while the scheduler is stopped, stored otherwise.
\* An interval trigger first runs one interval after the job is added.
AddJob(s, trigger) ==
    IF s.state = "stopped"
    THEN [ s EXCEPT !.pending = @ (+) SetToBag({ NewJob(trigger) }) ]
    ELSE [ s EXCEPT !.jobs = @ (+) SetToBag({ NewJob(trigger) }) ]

\* start() of a stopped scheduler: the pending jobs are stored
Start(s) ==
    [ state |-> "running", jobs |-> s.jobs (+) s.pending,
      pending |-> EmptyBag ]

\* setup_scheduler: the scheduler it leaves and what it raises
SetupScheduler(s, interval) ==
    LET s0 == IF s.state = "none" THEN NewScheduler ELSE s
        trigger == Trigger(interval)
    IN  IF trigger = "none" THEN [ scheduler |-> s0, exc |-> "none" ]
        ELSE LET s1 == AddJob(s0, trigger)
             IN  IF s1.state # "stopped"
                 THEN [ scheduler |-> s1,
                        exc |-> "SchedulerAlreadyRunningError" ]
                 ELSE [ scheduler |-> Start(s1), exc |-> "none" ]

Jobs(s) == BagToSet(s.jobs)

\* job j of the store becomes k
Replace(s, j, k) ==
    [ s EXCEPT !.jobs = (@ (-) SetToBag({ j })) (+) SetToBag({ k }) ]

\* the number of instances of update_hosts the executor is running
RunningJobs(s) ==
    BagCardinality([ j \in { k \in Jobs(s) : k.running } |-> s.jobs[j] ])

\* the number of jobs whose next run time has come
DueJobs(s) ==
    BagCardinality([ j \in { k \in Jobs(s) : k.due } |-> s.jobs[j] ])

----------------------------------------------------------------------------
(* Initial states *)

\* hosts files at start: foreign lines only, one owned block among foreign
\* lines, and a block without its end marker
InitFiles ==
    { << "A", "C" >>,
      << "A", StartMarker, "0.0.0.0\told", EndMarker, "C" >>,
      << "A", StartMarker, "0.0.0.0\told" >> }

NoCall == [ call |-> "none", exc |-> "none" ]

\* class attributes, lines 23-28
InitPlugin ==
    /\ enabled = FALSE
    /\ domain_list = DefaultDomainList
    /\ schedule_interval = "None"
    /\ scheduler = NoScheduler
    /\ cfg_pc = "idle"
    /\ stop_pc = "idle"
    /\ returned = NoCall
    /\ written = <<>>
    /\ stop_mid = {}

Init ==
    /\ hosts \in InitFiles
    /\ hosts_eol \in BOOLEAN
    /\ hosts # <<>> \/ hosts_eol
    /\ hosts0 = hosts
    /\ InitPlugin

\* the cycles under way: the one of init_plugin and those of the jobs
CyclesUnderWay ==
    (IF cfg_pc = "update" THEN 1 ELSE 0) + RunningJobs(scheduler)

EndMarkers(lines) == Cardinality({ i \in 1..Len(lines) : IsEnd(lines[i]) })

CanStartCycle == EndMarkers(hosts) + CyclesUnderWay < MaxBlocks

----------------------------------------------------------------------------
(* init_plugin *)

SetFile(file) ==
    /\ hosts' = file.lines
    /\ hosts_eol' = file.eol

\* lines 31-35: the configuration is stored
StoreConfig(config) ==
    /\ enabled' = config.enabled
    /\ domain_list' = IF config.domain_list # <<>>
                      THEN config.domain_list ELSE domain_list
    /\ schedule_interval' = config.schedule_interval

\* init_plugin with a falsy config: nothing happens
InitPluginNoConfig ==
    /\ cfg_pc = "idle"
    /\ returned' = [ call |-> "init_plugin", exc |-> "none" ]
    /\ UNCHANGED << hosts, hosts_eol, hosts0, enabled, domain_list,
                    schedule_interval, scheduler, cfg_pc, stop_pc, written,
                    stop_mid >>

\* init_plugin(enabled = False): lines 31-35 and 41
InitPluginDisable(config) ==
    /\ cfg_pc = "idle"
    /\ ~config.enabled
    /\ StoreConfig(config)
    /\ SetFile(ClearSystemHosts(File))
    /\ written' = <<>>
    /\ returned' = [ call |-> "init_plugin", exc |-> "none" ]
    /\ UNCHANGED << hosts0, scheduler, cfg_pc, stop_pc, stop_mid >>

\* init_plugin(enabled = True) up to the read of update_hosts (lines 31-38,
\* 76-78); the read raising leaves init_plugin
InitPluginEnable(config) ==
    /\ cfg_pc = "idle"
    /\ config.enabled
    /\ CanStartCycle
    /\ BagCardinality(scheduler.jobs) <= MaxRearm
    /\ StoreConfig(config)
    /\ \E read \in ReadOutcomes :
          \/ /\ read = "raise"
             /\ returned' = [ call |-> "init_plugin", exc |-> "ReadError" ]
             /\ UNCHANGED cfg_pc
          \/ /\ read = "ok"
             /\ cfg_pc' = "update"
             /\ UNCHANGED returned
    /\ UNCHANGED << hosts, hosts_eol, hosts0, scheduler, stop_pc, written,
                    stop_mid >>

\* the rest of the cycle init_plugin runs: the fetches and the write, lines
\* 80-106
InitPluginWrite ==
    /\ cfg_pc = "update"
    /\ \E fetch \in Fetches(domain_list) :
          LET hosts_content == BuildContent(fetch.bulk, fetch.dns, domain_list)
          IN  /\ SetFile(CycleWrite(File, hosts_content))
              /\ written' = hosts_content
    /\ cfg_pc' = "setup"
    /\ stop_mid' = IF stop_pc = "idle" THEN stop_mid \ { "init_plugin" }
                   ELSE { IF m = "init_plugin" THEN "init_plugin_ended" ELSE m :
                          m \in stop_mid }
    /\ UNCHANGED << hosts0, enabled, domain_list, schedule_interval,
                    scheduler, stop_pc, returned >>

\* line 39: setup_scheduler, and init_plugin returns (or raises what start()
\* raised).  The scheduler's locks are held by a shutdown that is waiting.
InitPluginSetup ==
    /\ cfg_pc = "setup"
    /\ stop_pc # "wait"
    /\ LET r == SetupScheduler(scheduler, schedule_interval)
       IN  /\ scheduler' = r.scheduler
           /\ returned' = [ call |-> "init_plugin", exc |-> r.exc ]
    /\ cfg_pc' = "idle"
    /\ UNCHANGED << hosts, hosts_eol, hosts0, enabled, domain_list,
                    schedule_interval, stop_pc, written, stop_mid >>

----------------------------------------------------------------------------
(* stop_service *)

\* whose cycles are under way
UnderWay ==
    (IF cfg_pc = "update" THEN { "init_plugin" } ELSE {})
    \cup (IF RunningJobs(scheduler) > 0 THEN { "job" } ELSE {})

\* line 47-48 with no scheduler object: lines 49-50 follow at once
StopServiceNoScheduler ==
    /\ stop_pc = "idle"
    /\ scheduler.state = "none"
    /\ SetFile(ClearSystemHosts(File))
    /\ written' = <<>>
    /\ returned' = [ call |-> "stop_service", exc |-> "none" ]
    /\ stop_mid' = UnderWay
    /\ UNCHANGED << hosts0, enabled, domain_list, schedule_interval,
                    scheduler, cfg_pc, stop_pc >>

\* shutdown() of a scheduler that is not running raises; line 49 is not
\* reached
StopServiceRaise ==
    /\ stop_pc = "idle"
    /\ scheduler.state = "stopped"
    /\ returned' = [ call |-> "stop_service",
                     exc |-> "SchedulerNotRunningError" ]
    /\ stop_mid' = UnderWay
    /\ UNCHANGED << hosts, hosts_eol, hosts0, enabled, domain_list,
                    schedule_interval, scheduler, cfg_pc, stop_pc, written >>

\* shutdown() of a running scheduler: it is stopped at once, and the call
\* waits for the running jobs
StopServiceShutdown ==
    /\ stop_pc = "idle"
    /\ scheduler.state = "running"
    /\ scheduler' = [ scheduler EXCEPT !.state = "stopped" ]
    /\ stop_pc' = "wait"
    /\ stop_mid' = UnderWay
    /\ UNCHANGED << hosts, hosts_eol, hosts0, enabled, domain_list,
                    schedule_interval, cfg_pc, returned, written >>

\* the running jobs have ended: the job store is cleared and shutdown()
\* returns, then lines 49-50
StopServiceClear ==
    /\ stop_pc = "wait"
    /\ RunningJobs(scheduler) = 0
    /\ scheduler' = [ scheduler EXCEPT !.jobs = EmptyBag ]
    /\ SetFile(ClearSystemHosts(File))
    /\ written' = <<>>
    /\ stop_pc' = "idle"
    /\ returned' = [ call |-> "stop_service", exc |-> "none" ]
    /\ stop_mid' = stop_mid \ { "job", "init_plugin_ended" }
    /\ UNCHANGED << hosts0, enabled, domain_list, schedule_interval, cfg_pc >>

----------------------------------------------------------------------------
(* The scheduled job *)

\* one interval has passed since job j was added or last ran
IntervalElapses(j) ==
    /\ scheduler.state = "running"
    /\ ~j.due
    /\ scheduler' = Replace(scheduler, j, [ j EXCEPT !.due = TRUE ])
    /\ UNCHANGED << hosts, hosts_eol, hosts0, enabled, domain_list,
                    schedule_interval, cfg_pc, stop_pc, returned, written,
                    stop_mid >>

\* the scheduler runs job j (one instance of a job at a time): update_hosts
\* up to its read, lines 76-78.  What the job raises is logged by the
\* executor and ends the instance.
JobFire(j) ==
    /\ scheduler.state = "running"
    /\ j.due
    /\ ~j.running
    /\ CanStartCycle
    /\ \E read \in ReadOutcomes :
          scheduler' = Replace(scheduler, j,
                               [ j EXCEPT !.due = FALSE,
                                          !.running = (read = "ok") ])
    /\ UNCHANGED << hosts, hosts_eol, hosts0, enabled, domain_list,
                    schedule_interval, cfg_pc, stop_pc, returned, written,
                    stop_mid >>

\* the rest of the cycle job j runs: the fetches and the write, lines 80-106
JobWrite(j) ==
    /\ j.running
    /\ \E fetch \in Fetches(domain_list) :
          LET hosts_content == BuildContent(fetch.bulk, fetch.dns, domain_list)
          IN  /\ SetFile(CycleWrite(File, hosts_content))
              /\ written' = hosts_content
    /\ scheduler' = Replace(scheduler, j, [ j EXCEPT !.running = FALSE ])
    /\ UNCHANGED << hosts0, enabled, domain_list, schedule_interval, cfg_pc,
                    stop_pc, returned, stop_mid >>

----------------------------------------------------------------------------

Next ==
    \/ InitPluginNoConfig
    \/ \E config \in Configs : InitPluginDisable(config)
    \/ \E config \in Configs : InitPluginEnable(config)
    \/ InitPluginWrite
    \/ InitPluginSetup
    \/ StopServiceNoScheduler
    \/ StopServiceRaise
    \/ StopServiceShutdown
    \/ StopServiceClear
    \/ \E j \in Jobs(scheduler) : IntervalElapses(j)
    \/ \E j \in Jobs(scheduler) : JobFire(j)
    \/ \E j \in Jobs(scheduler) : JobWrite(j)

Spec == Init /\ [][Next]_vars

----------------------------------------------------------------------------
(* The strip on its own: any short file, and the two disables of a plugin   *)
(* that has no scheduler yet                                               *)

StripLines == { "A", "C", StartMarker, EndMarker, PaddedStart }

StripFiles == UNION { [ 1..n -> StripLines ] : n \in 0..MaxStripLen }

InitStrip ==
    /\ hosts \in StripFiles
    /\ hosts_eol \in BOOLEAN
    /\ hosts # <<>> \/ hosts_eol
    /\ hosts0 = hosts
    /\ InitPlugin

NextStrip ==
    \/ \E config \in Configs : InitPluginDisable(config)
    \/ StopServiceNoScheduler

SpecStrip == InitStrip /\ [][NextStrip]_vars

----------------------------------------------------------------------------
(* The update cycle on its own: update_hosts run in one step on every fetch *)
(* result, between clears that set the domain list                         *)

\* update_hosts, lines 72-106, its read succeeding
UpdateHostsWith(fetch) ==
    /\ Len(hosts) < MaxCycleLen
    /\ LET hosts_content == BuildContent(fetch.bulk, fetch.dns, domain_list)
       IN  /\ SetFile(CycleWrite(File, hosts_content))
           /\ written' = hosts_content
    /\ UNCHANGED << hosts0, enabled, domain_list, schedule_interval,
                    scheduler, cfg_pc, stop_pc, returned, stop_mid >>

UpdateHosts == \E fetch \in AllFetches(domain_list) : UpdateHostsWith(fetch)

\* the configurations that differ in the domain list only
CycleConfigs == { config \in Configs : config.schedule_interval = "1hour" }

NextCycle ==
    \/ \E config \in CycleConfigs : InitPluginDisable(config)
    \/ UpdateHosts

SpecCycle == Init /\ [][NextCycle]_vars

----------------------------------------------------------------------------
(* File operations that fail: update_hosts and a clear, each in one step,   *)
(* on a file system that may fail a read, an open or a write               *)

\* _write_hosts when the file system fails it: the file once the first k of
\* the writes of lines 114-116 have reached it (k = 0: open() failed, or no
\* write got through)
WriteHostsPartial(file, hosts_content, k) ==
    LET merged == file.lines # <<>> /\ ~file.eol
        head == IF merged
                THEN Front(file.lines) \o << Last(file.lines) \o StartMarker >>
                ELSE file.lines \o << StartMarker >>
    IN  CASE k = 0 -> file
          [] k = 1 -> [ lines |-> head, eol |-> TRUE ]
          [] k = 2 -> [ lines |-> head \o JoinLines(hosts_content),
                        eol |-> FALSE ]
          [] OTHER -> WriteHosts(file, hosts_content)

\* _clear_system_hosts when the file system fails it after open(..., "w")
\* has truncated the file: the first k of the lines the loop keeps are in it
ClearPartial(file, k) ==
    [ lines |-> SubSeq(ClearLoop(file.lines, TRUE), 1, k), eol |-> TRUE ]

\* how far a write gets: 3 is the whole of it
WriteSteps == 0..3

\* update_hosts, lines 72-106: the read raises, or the cycle runs and its
\* write gets through k of its steps; _write_hosts catches what open() and
\* write() raise
UpdateHostsIOWith(read, fetch, k) ==
    /\ Len(hosts) < MaxIOLen
    /\ \/ /\ read = "raise"
          /\ returned' = [ call |-> "update_hosts", exc |-> "ReadError" ]
          /\ UNCHANGED << hosts, hosts_eol, written >>
       \/ /\ read = "ok"
          /\ LET hosts_content ==
                     BuildContent(fetch.bulk, fetch.dns, domain_list)
             IN  /\ SetFile(IF hosts_content # <<>>
                            THEN WriteHostsPartial(File, hosts_content, k)
                            ELSE File)
                 /\ written' = IF k = 3 THEN hosts_content ELSE <<>>
          /\ returned' = [ call |-> "update_hosts", exc |-> "none" ]
    /\ UNCHANGED << hosts0, enabled, domain_list, schedule_interval,
                    scheduler, cfg_pc, stop_pc, stop_mid >>

UpdateHostsIO ==
    \E read \in ReadOutcomes, fetch \in Fetches(domain_list), k \in WriteSteps :
        UpdateHostsIOWith(read, fetch, k)

\* stop_service of a plugin without a scheduler, its clear failing: before
\* the file is opened for writing (k = -1), or after k lines were written;
\* _clear_system_hosts catches what it raises
StopServiceFails(k) ==
    /\ stop_pc = "idle"
    /\ scheduler.state = "none"
    /\ k < Len(ClearLoop(hosts, TRUE))
    /\ SetFile(IF k = -1 THEN File ELSE ClearPartial(File, k))
    /\ written' = <<>>
    /\ returned' = [ call |-> "stop_service", exc |-> "none" ]
    /\ UNCHANGED << hosts0, enabled, domain_list, schedule_interval,
                    scheduler, cfg_pc, stop_pc, stop_mid >>

NextIO ==
    \/ UpdateHostsIO
    \/ StopServiceNoScheduler
    \/ \E k \in -1..Len(hosts) : StopServiceFails(k)

SpecIO == Init /\ [][NextIO]_vars

----------------------------------------------------------------------------
(* What the claims speak of *)

StartMarkers(lines) == Cardinality({ i \in 1..Len(lines) : IsStart(lines[i]) })

NoMarkers(lines) == \A i \in 1..Len(lines) : ~IsMarker(lines[i])

\* the lines of `lines` at the places in `keep`, in their order
RECURSIVE Pick(_, _, _)
Pick(lines, keep, i) ==
    IF i > Len(lines) THEN <<>>
    ELSE (IF i \in keep THEN << lines[i] >> ELSE <<>>)
         \o Pick(lines, keep, i + 1)

\* place i lies outside every owned block: it holds no marker, and the
\* marker nearest before it, if any, is an end marker
OutsidePlace(lines, i) ==
    /\ ~IsMarker(lines[i])
    /\ \A k \in 1..(i - 1) :
          IsStart(lines[k]) => \E e \in (k + 1)..(i - 1) : IsEnd(lines[e])

Outside(lines) ==
    Pick(lines, { i \in 1..Len(lines) : OutsidePlace(lines, i) }, 1)

\* the file ends with the lines of hosts_content and the end marker
EndsWithBlock(lines, hosts_content) ==
    LET block == JoinLines(hosts_content) \o << EndMarker >>
    IN  /\ Len(lines) >= Len(block)
        /\ SubSeq(lines, Len(lines) - Len(block) + 1, Len(lines)) = block

\* a step that ends an update cycle
CycleEnds == InitPluginWrite \/ \E j \in Jobs(scheduler) : JobWrite(j)

\* a step with which a disable returns normally
DisableReturns ==
    \/ \E config \in Configs : InitPluginDisable(config)
    \/ StopServiceNoScheduler
    \/ StopServiceClear

\* a step with which stop_service returns or raises
StopReturns == StopServiceNoScheduler \/ StopServiceRaise \/ StopServiceClear

\* a disable has returned normally and init_plugin(enabled = True) was not
\* called since: no host call is under way, and either the configuration
\* stored last says enabled = False or stop_service returned last
Disabled ==
    /\ cfg_pc = "idle"
    /\ stop_pc = "idle"
    /\ \/ schedule_interval # "None" /\ ~enabled
       \/ returned = [ call |-> "stop_service", exc |-> "none" ]

\* the lines a step put after the lines the file had
Appended(before, after) == SubSeq(after, Len(before) + 1, Len(after))

\* the addresses a lookup may return
Addresses == UNION { Range(o.addrs) : o \in DnsResponses }

\* the lines "address<TAB>domain" of domain d
DomainLines(d) == { a \o "\t" \o d : a \in Addresses }

\* a lookup that yields no address
LookupFails(o) == o.kind # "ok" \/ o.addrs = <<>>

\* the lines of the block as the fetch results call for them: the text of a
\* bulk fetch answered with status 200, then the entries of the domains
ClaimedBlock(fetch, domains) ==
    (IF fetch.bulk.ok /\ fetch.bulk.status = 200 THEN fetch.bulk.text ELSE <<>>)
    \o Flatten(DomainEntries(domains, fetch.dns))

\* neither the bulk fetch nor a lookup yields anything
YieldsNothing(fetch, domains) ==
    /\ ~fetch.bulk.ok \/ fetch.bulk.text = << "" >>
    /\ \A d \in Range(domains) : LookupFails(fetch.dns[d])

\* the scheduler as a disable that disarms it leaves it
Disarmed == [ state |-> "stopped", jobs |-> EmptyBag, pending |-> EmptyBag ]

----------------------------------------------------------------------------
(* The claims *)

\* C1: the file never holds more than one start-marker line nor more than
\* one end-marker line.
C1_AtMostOneBlock == StartMarkers(hosts) <= 1 /\ EndMarkers(hosts) <= 1

\* C2: a cycle that ends with the hosts_content of the cycle before it, the
\* file not having been rewritten in between, leaves the file as that cycle
\* left it.
C2_UpdateIdempotent ==
    [][ (CycleEnds /\ written' = written)
        => (hosts' = hosts /\ hosts_eol' = hosts_eol) ]_vars

\* C3: in every state the lines outside the owned blocks are the lines that
\* were outside them at start, in the same order.
C3_ForeignPreserved == Outside(hosts) = Outside(hosts0)

\* C4: once a clear has run on a file made of foreign lines and one owned
\* block (a start marker at s, an end marker at e after it, no other marker),
\* the file is the lines outside s..e, in their order.
C4_StripExact ==
    \A s, e \in 1..Len(hosts0) :
        ( /\ returned.call # "none"
          /\ s < e
          /\ IsStart(hosts0[s])
          /\ IsEnd(hosts0[e])
          /\ \A k \in (1..Len(hosts0)) \ { s, e } : ~IsMarker(hosts0[k]) )
        => hosts = Pick(hosts0, (1..Len(hosts0)) \ (s..e), 1)

\* a clear has run on foreign A, a block holding one line, foreign C
C4_Witness ==
    /\ returned.call # "none"
    /\ hosts0 = << "A", StartMarker, "C", EndMarker, "C" >>
    /\ hosts = << "A", "C" >>

\* C5: when a disable returns, the file holds no marker line and no line
\* that was not in it at start.
C5_DisableLeavesNoTrace ==
    [][ DisableReturns
        => ( /\ NoMarkers(hosts')
             /\ \A i \in 1..Len(hosts') : hosts'[i] \in Range(hosts0) ) ]_vars

\* C6: stop_service never raises, and a stop_service that follows a
\* stop_service, no cycle having written in between, leaves the file as it
\* found it.
C6_StopIdempotent ==
    [][ StopReturns
        => ( /\ returned'.exc = "none"
             /\ (returned.call = "stop_service" /\ written = <<>>)
                => (hosts' = hosts /\ hosts_eol' = hosts_eol) ) ]_vars

\* C7: after a disable has returned, and until init_plugin is called again,
\* the scheduler is not running, no scheduled cycle is under way and the
\* file holds no start marker.
C7_DisableDisarms ==
    Disabled => ( /\ scheduler.state # "running"
                  /\ RunningJobs(scheduler) = 0
                  /\ StartMarkers(hosts) = 0 )

\* C8: the step with which stop_service and the cycles that were under way
\* when it was called have all ended leaves no marker in the file and the
\* scheduler not running.
C8_StopMidCycle ==
    [][ (stop_mid # {} /\ stop_mid' = {})
        => (NoMarkers(hosts') /\ scheduler'.state # "running") ]_vars

\* C9: the scheduler never holds more than one job, and init_plugin never
\* raises what start() raises on a running scheduler.
C9_AtMostOneTimer ==
    /\ BagCardinality(scheduler.jobs) + BagCardinality(scheduler.pending) <= 1
    /\ returned.exc # "SchedulerAlreadyRunningError"

\* C10: init_plugin(enabled = True) goes from its call through one cycle to
\* setup_scheduler; the scheduler gets a job or is started only by the step
\* after that cycle has ended, the job it gets is not due and not running,
\* and an instance of a job starts only for a job whose interval has elapsed;
\* the block the cycle writes ends the file before setup_scheduler runs, and
\* setup_scheduler leaves the file alone.
C10_EnableOrdering ==
    [][ /\ (cfg_pc' = "setup" /\ cfg_pc # "setup") => cfg_pc = "update"
        /\ cfg_pc = "update" => cfg_pc' \in { "update", "setup" }
        /\ ( \/ BagCardinality(scheduler'.jobs) > BagCardinality(scheduler.jobs)
             \/ scheduler'.state = "running" /\ scheduler.state # "running" )
           => ( /\ cfg_pc = "setup"
                /\ cfg_pc' = "idle"
                /\ RunningJobs(scheduler') = RunningJobs(scheduler)
                /\ DueJobs(scheduler') = DueJobs(scheduler) )
        /\ RunningJobs(scheduler') > RunningJobs(scheduler)
           => DueJobs(scheduler') < DueJobs(scheduler)
        /\ (cfg_pc = "update" /\ cfg_pc' = "setup" /\ written' # <<>>)
           => EndsWithBlock(hosts', written')
        /\ (cfg_pc = "setup" /\ cfg_pc' = "idle")
           => (hosts' = hosts /\ hosts_eol' = hosts_eol) ]_vars

\* init_plugin(enabled = True) has returned: its cycle wrote a block, which
\* ends the file, and the scheduler runs one job that is not due
C10_Witness ==
    /\ cfg_pc = "idle"
    /\ returned = [ call |-> "init_plugin", exc |-> "none" ]
    /\ enabled
    /\ written # <<>>
    /\ Len(hosts) > Len(hosts0)
    /\ IsEnd(Last(hosts))
    /\ scheduler.state = "running"
    /\ BagCardinality(scheduler.jobs) = 1
    /\ DueJobs(scheduler) = 0
    /\ RunningJobs(scheduler) = 0

\* C11: a cycle that writes puts after the file's lines the start marker (on
\* a line of its own, or on the last line when that had no newline), then
\* the bulk text if the bulk fetch succeeded, then the lines of every domain
\* in list order and address order, then the end marker, and nothing else.
C11_BlockContent ==
    [][ \A fetch \in AllFetches(domain_list) :
          (UpdateHostsWith(fetch) /\ hosts' # hosts)
          => LET block == ClaimedBlock(fetch, domain_list) \o << EndMarker >>
             IN  /\ Len(hosts') = Len(hosts) + Len(block)
                                  + (IF hosts # <<>> /\ ~hosts_eol THEN 0 ELSE 1)
                 /\ SubSeq(hosts', Len(hosts') - Len(block) + 1, Len(hosts'))
                    = block ]_vars

\* C12: in a cycle, a domain whose lookup raises, answers another status
\* than 200 or returns no address has none of its lines among the lines the
\* cycle appends, and every address of every other domain of the list has
\* its line among them.
C12_Omission ==
    [][ \A fetch \in AllFetches(domain_list) :
          UpdateHostsWith(fetch)
          => \A d \in Range(domain_list) :
                IF LookupFails(fetch.dns[d])
                THEN \A i \in (Len(hosts) + 1)..Len(hosts') :
                        hosts'[i] \notin DomainLines(d)
                ELSE \A a \in Range(fetch.dns[d].addrs) :
                        \E i \in (Len(hosts) + 1)..Len(hosts') :
                           hosts'[i] = a \o "\t" \o d ]_vars

\* a cycle over the two default domains has ended: the lookup of the first
\* failed, and the block holds the two addresses of the second
C12_Witness ==
    /\ domain_list = DefaultDomainList
    /\ written = << << "5.6.7.8\timage.tmdb.org" >>,
                    << "9.9.9.9\timage.tmdb.org" >> >>
    /\ Len(hosts) >= 3
    /\ SubSeq(hosts, Len(hosts) - 2, Len(hosts))
       = << "5.6.7.8\timage.tmdb.org", "9.9.9.9\timage.tmdb.org", EndMarker >>

\* C13: a cycle whose bulk fetch yields nothing and whose lookups yield no
\* address leaves the file as it was.
C13_NoOpCycle ==
    [][ \A fetch \in AllFetches(domain_list) :
          (UpdateHostsWith(fetch) /\ YieldsNothing(fetch, domain_list))
          => (hosts' = hosts /\ hosts_eol' = hosts_eol) ]_vars

\* C14: once a clear has run on a file whose lines before a start marker at s
\* are foreign lines and that has no end marker after s, the clear has
\* raised nothing and the file is the lines before s, in their order.
C14_UnterminatedBlock ==
    \A s \in 1..Len(hosts0) :
        ( /\ returned.call # "none"
          /\ IsStart(hosts0[s])
          /\ \A k \in 1..(s - 1) : ~IsMarker(hosts0[k])
          /\ \A k \in (s + 1)..Len(hosts0) : ~IsEnd(hosts0[k]) )
        => ( /\ returned.exc = "none"
             /\ hosts = SubSeq(hosts0, 1, s - 1) )

\* a clear has run on foreign A, C, a start marker, and two lines after it
C14_Witness ==
    /\ returned.call # "none"
    /\ hosts0 = << "A", "C", StartMarker, "C", "A" >>
    /\ hosts = << "A", "C" >>

\* C15: a cycle's write or a clear, whatever fails in it, leaves the file
\* either as it was or as the whole operation would have left it.
C15_AllOrNothing ==
    [][ LET after == [ lines |-> hosts', eol |-> hosts_eol' ]
        IN  /\ \A read \in ReadOutcomes, fetch \in Fetches(domain_list),
                  k \in WriteSteps :
                   UpdateHostsIOWith(read, fetch, k)
                   => after \in { File,
                                  CycleWrite(File,
                                      BuildContent(fetch.bulk, fetch.dns,
                                                   domain_list)) }
            /\ \A k \in -1..Len(hosts) :
                   StopServiceFails(k)
                   => after \in { File, ClearSystemHosts(File) } ]_vars

\* C16: every start-marker line that a cycle's write puts into the file,
\* whether the write fails or not, has an end-marker line after it.
C16_NoDanglingStart ==
    [][ UpdateHostsIO
        => \A i \in (Len(hosts) + 1)..Len(hosts') :
              IsStart(hosts'[i])
              => \E e \in (i + 1)..Len(hosts') : IsEnd(hosts'[e]) ]_vars

\* C17: update_hosts never raises to its caller, whichever of its read, its
\* fetches and its write fail.
C17_NoFailureFatal ==
    returned.call = "update_hosts" => returned.exc = "none"

\* C18: at most one update cycle is between its read and its write at any
\* time, and a clear runs only while no cycle is.
C18_SerializedFileAccess ==
    [][ /\ CyclesUnderWay' <= 1
        /\ DisableReturns => CyclesUnderWay = 0 ]_vars

\* C19: init_plugin(enabled = True) of a plugin whose scheduler an earlier
\* enable has started does what a disable followed by that enable does: its
\* cycle leaves the file stripped of every block and ending with the block
\* just built, and its setup_scheduler raises nothing and leaves the
\* scheduler that setup_scheduler makes of a disarmed one.
C19_ReconfigureIsDisableEnable ==
    [][ scheduler.state = "running"
        => /\ InitPluginWrite
              => [ lines |-> hosts', eol |-> hosts_eol' ]
                 = CycleWrite(ClearSystemHosts(File), written')
           /\ InitPluginSetup
              => /\ returned'.exc = "none"
                 /\ scheduler'
                    = SetupScheduler(Disarmed, schedule_interval).scheduler
      ]_vars

====
